---- MODULE Spec2Model ----
(***************************************************************************)
(* Email monitor simulator (emailsim.py): the detector monitor_email, the  *)
(* session log written by add_to_log, and the three pages of the Streamlit *)
(* script (Compose, Inbox, Monitor Dashboard).                             *)
(*                                                                         *)
(* One step of Spec is one user interaction together with the script run   *)
(* (and the st.rerun() run, where the handler asks for one) it triggers.   *)
(*                                                                         *)
(* Text is a sequence of characters.  A run of characters that holds no    *)
(* comma, and neither starts nor ends with white space, is written as one  *)
(* token ("Phone Number", "invoice.png"); "," and " " are always single    *)
(* characters, so joining with ", ", splitting on ", " and stripping act   *)
(* on the model's text as they act on the program's.                       *)
(***************************************************************************)
EXTENDS Integers, Sequences, FiniteSets, TLC

\* ---------------------------------------------------------------- bounds
\* Most records the log holds before the appending steps are switched off.
MaxLog == 2
\* pd.Timestamp.now() reads 1..MaxTime (naive local wall-clock time: it can
\* repeat and it can step back).
MaxTime == 2
\* Longest attachment list handed to the detector in SpecDetect.
MaxAtts == 2

\* ---------------------------------------------------------- configuration
ATTACHMENT_SIZE_LIMIT_MB == 5
ATTACHMENT_SIZE_LIMIT_BYTES == ATTACHMENT_SIZE_LIMIT_MB * 1024 * 1024

\* The keys of REGEX_PATTERNS, in the dict's (insertion) order.
REGEX_PATTERNS ==
    <<"Phone Number", "Credit Card", "Financial Amount",
      "Numbers in Words (Financial)">>

\* ------------------------------------------------------------ body texts
BODY_1 == "Please see the attached invoice for payment. Call me at (123) 456-7890 if you have questions."
BODY_2 == "Here are the notes from today's sync. Great job team."
BODY_3 == "Here are the new branding assets. The file is large, let me know if it comes through."
BODY_4 == "Your payment of $1,450.00 is overdue. Please pay with your card 1234-5678-9012-3456 immediately."
BODY_5 == "Please wire the one hundred thousand dollars as we discussed. This is very time sensitive."
\* The Compose form's default body.
BODY_DEFAULT == "Hi,\n\nHere is the information you requested about your payment of $150.00. You can reach me at (555) 123-4567."
BODY_EMPTY == ""

Bodies == {BODY_1, BODY_2, BODY_3, BODY_4, BODY_5, BODY_DEFAULT, BODY_EMPTY}

\* re.search(REGEX_PATTERNS[flag_name], body_text, re.IGNORECASE) is not None,
\* tabulated for the texts of Bodies (each entry is what Python's re returns
\* for that pattern and that text).
re_search(flag_name, body_text) ==
    CASE flag_name = "Phone Number" -> body_text \in {BODY_1, BODY_DEFAULT}
      [] flag_name = "Credit Card" -> body_text \in {BODY_4}
      [] flag_name = "Financial Amount" -> body_text \in {BODY_4, BODY_DEFAULT}
      [] flag_name = "Numbers in Words (Financial)" -> body_text \in {BODY_5}
      [] OTHER -> FALSE

\* ------------------------------------------------------------------ text
Range(s) == {s[i] : i \in DOMAIN s}

\* str.startswith
startswith(s, prefix) ==
    /\ Len(s) >= Len(prefix)
    /\ SubSeq(s, 1, Len(prefix)) = prefix

\* The separator of ", ".join and of .str.split(', ').
SEP == <<",", " ">>

\* ", ".join(flags)
RECURSIVE join(_)
join(flags) ==
    IF flags = <<>> THEN <<>>
    ELSE IF Len(flags) = 1 THEN flags[1]
    ELSE flags[1] \o SEP \o join(Tail(flags))

\* s.split(', ') from position i on, the current piece starting at start:
\* leftmost, non-overlapping separators; a text with no separator is one piece.
RECURSIVE split_from(_, _, _)
split_from(s, i, start) ==
    IF i + 1 > Len(s) THEN <<SubSeq(s, start, Len(s))>>
    ELSE IF SubSeq(s, i, i + 1) = SEP
         THEN <<SubSeq(s, start, i - 1)>> \o split_from(s, i + 2, i + 2)
         ELSE split_from(s, i + 1, start)

split(s) == split_from(s, 1, 1)

\* str.strip(): white space off both ends.
RECURSIVE strip(_)
strip(s) ==
    IF s = <<>> THEN s
    ELSE IF Head(s) = " " THEN strip(Tail(s))
    ELSE IF s[Len(s)] = " " THEN strip(SubSeq(s, 1, Len(s) - 1))
    ELSE s

\* -------------------------------------------------------------- detector
\* An attachment is [name, type, size]: the attributes monitor_email reads.
Attachment(name, type, size) == [name |-> name, type |-> type, size |-> size]

IMAGE_PNG == <<"image/", "png">>
APPLICATION_ZIP == <<"application/", "zip">>

\* Variant of size_exceeded: the comparison written >=.
size_exceeded_at_limit(att) == att.size >= ATTACHMENT_SIZE_LIMIT_BYTES
\* att.size > ATTACHMENT_SIZE_LIMIT_BYTES
size_exceeded(att) == att.size > ATTACHMENT_SIZE_LIMIT_BYTES

\* att.type.startswith("image/")
is_image(att) == startswith(att.type, <<"image/">>)

\* f"Attachment Size > {ATTACHMENT_SIZE_LIMIT_MB}MB ({att.name})"
size_label(name) == <<"Attachment Size > 5MB (">> \o name \o <<")">>
\* f"Image Attached ({att.name})"
image_label(name) == <<"Image Attached (">> \o name \o <<")">>

\* The loop over REGEX_PATTERNS.items(): the names whose pattern is found in
\* the body, in the dict's order, each as a label (a text).
body_flags(body_text) ==
    LET hit == SelectSeq(REGEX_PATTERNS, LAMBDA f : re_search(f, body_text))
    IN  [i \in 1..Len(hit) |-> <<hit[i]>>]

\* The two checks of the attachment loop's body, for one attachment.
attachment_flags(att) ==
    (IF size_exceeded(att) THEN <<size_label(att.name)>> ELSE <<>>)
    \o (IF is_image(att) THEN <<image_label(att.name)>> ELSE <<>>)

\* for att in attachments: the labels appended, in order.
RECURSIVE all_attachment_flags(_)
all_attachment_flags(attachments) ==
    IF attachments = <<>> THEN <<>>
    ELSE attachment_flags(Head(attachments))
         \o all_attachment_flags(Tail(attachments))

\* Every list that holds each member of S once.
RECURSIVE lists_of(_)
lists_of(S) ==
    IF S = {} THEN {<<>>}
    ELSE UNION {{<<x>> \o t : t \in lists_of(S \ {x})} : x \in S}

\* Variant of unique: the list returned as it was built.
not_unique(flags) == {flags}
\* list(set(flags)): the members of flags, each once, in an order Python does
\* not specify (string hashing is seeded per process): every order is possible.
unique(flags) == lists_of(Range(flags))

\* monitor_email(body_text, attachments): the lists the call can return.
\* No caller passes None; `not attachments` is the test for the empty list.
monitor_email(body_text, attachments) ==
    IF attachments = <<>> THEN {body_flags(body_text)}
    ELSE unique(body_flags(body_text) \o all_attachment_flags(attachments))

\* ------------------------------------------------------------------- log
\* Variant of add_to_log: a record equal but for its Timestamp is not added.
add_to_log_dedup(the_log, from_email, to_email, subject, flags, direction, now) ==
    IF \E i \in DOMAIN the_log :
          /\ the_log[i].From = from_email /\ the_log[i].To = to_email
          /\ the_log[i].Subject = subject /\ the_log[i].Flags = join(flags)
          /\ the_log[i].Direction = direction
    THEN the_log
    ELSE Append(the_log, [Timestamp |-> now, Direction |-> direction,
                          From |-> from_email, To |-> to_email,
                          Subject |-> subject, Flags |-> join(flags)])
\* Variant of add_to_log: log.insert(0, log_entry).
add_to_log_front(the_log, from_email, to_email, subject, flags, direction, now) ==
    <<[Timestamp |-> now, Direction |-> direction, From |-> from_email,
       To |-> to_email, Subject |-> subject, Flags |-> join(flags)]>> \o the_log
\* log.append(log_entry), the entry built from the arguments and the clock.
add_to_log(the_log, from_email, to_email, subject, flags, direction, now) ==
    Append(the_log, [Timestamp |-> now, Direction |-> direction,
                     From |-> from_email, To |-> to_email,
                     Subject |-> subject, Flags |-> join(flags)])

\* Variant of truthy: the test left out.
truthy_always(flags) == TRUE
\* `if flags:` a list is true when it is not empty.
truthy(flags) == flags # <<>>

\* ------------------------------------------------------------- mock data
get_mock_image == Attachment(<<"invoice.png">>, IMAGE_PNG, 150000)
get_mock_large_file == Attachment(<<"presentation.zip">>, APPLICATION_ZIP, 6000000)

MOCK_INBOX ==
    <<[id |-> 1, from |-> "accounting@partner.com",
       subject |-> "FW: Urgent Invoice", body |-> BODY_1,
       attachments |-> <<get_mock_image>>],
      [id |-> 2, from |-> "safe_sender@company.com",
       subject |-> "Meeting Notes", body |-> BODY_2,
       attachments |-> <<>>],
      [id |-> 3, from |-> "external.design@graphics.com",
       subject |-> "New Branding Assets", body |-> BODY_3,
       attachments |-> <<get_mock_large_file>>],
      [id |-> 4, from |-> "billing@suspicious.net",
       subject |-> "Action Required: Pay Your Bill", body |-> BODY_4,
       attachments |-> <<>>],
      [id |-> 5, from |-> "investor@moneytalk.com",
       subject |-> "Wire Transfer", body |-> BODY_5,
       attachments |-> <<>>]>>

EmailIds == {MOCK_INBOX[i].id : i \in DOMAIN MOCK_INBOX}
\* The message with the given id (ids are the positions in MOCK_INBOX).
email_of(id) == MOCK_INBOX[id]

\* ------------------------------------------------------------- dashboard
\* Variant of descending: ascending=False left out.
ascending(a, b) == a.Timestamp <= b.Timestamp
\* sort_values(by="Timestamp", ascending=False): a before b is in order.
descending(a, b) == a.Timestamp >= b.Timestamp

\* The rows of the log in every order sort_values may give them: the sort is
\* not stable, so rows of equal Timestamp come in any order.
sort_values(the_log) ==
    LET n == Len(the_log)
        Perms == {p \in [1..n -> 1..n] : \A i, j \in 1..n : i # j => p[i] # p[j]}
    IN  {[i \in 1..n |-> the_log[p[i]]] :
            p \in {q \in Perms :
                     \A i \in 1..n - 1 : descending(the_log[q[i]], the_log[q[i + 1]])}}

\* log_df['Direction'].value_counts().get(direction, 0)
direction_count(the_log, direction) ==
    Cardinality({i \in DOMAIN the_log : the_log[i].Direction = direction})

\* The three st.metric values; nothing when the log is empty (line 263).
metrics_of(the_log) ==
    IF the_log = <<>> THEN <<>>
    ELSE <<Len(the_log), direction_count(the_log, "Incoming"),
           direction_count(the_log, "Outgoing")>>

\* log_df['Flags'].str.split(', ').explode().str.strip(), then without ''.
RECURSIVE explode(_)
explode(the_log) ==
    IF the_log = <<>> THEN <<>>
    ELSE LET pieces == split(Head(the_log).Flags)
             stripped == [i \in DOMAIN pieces |-> strip(pieces[i])]
         IN  SelectSeq(stripped, LAMBDA x : x # <<>>) \o explode(Tail(the_log))

\* value_counts(): each value with the number of times it occurs.
value_counts(values) ==
    [v \in Range(values) |-> Cardinality({i \in DOMAIN values : values[i] = v})]

\* The Flag Type Analysis of lines 278-290: flag_counts, or nothing.
flag_type_analysis(the_log) ==
    IF the_log = <<>> \/ \A i \in DOMAIN the_log : strip(the_log[i].Flags) = <<>>
    THEN <<>>
    ELSE value_counts(explode(the_log))

\* ------------------------------------------------------------ user input
\* Files a user uploads on the Compose page (a file name is any text).
UploadNames == {<<"a.png">>, <<"a", ",", " ", "b.png">>}
UploadKinds ==
    {<<IMAGE_PNG, 150000>>,
     <<APPLICATION_ZIP, ATTACHMENT_SIZE_LIMIT_BYTES>>,
     <<APPLICATION_ZIP, ATTACHMENT_SIZE_LIMIT_BYTES + 1>>,
     <<IMAGE_PNG, 6000000>>}
Uploads == {Attachment(n, k[1], k[2]) : n \in UploadNames, k \in UploadKinds}

\* The attachment lists handed to the detector in SpecDetect.
AttLists == UNION {[1..n -> Uploads] : n \in 0..MaxAtts}

\* The Compose forms submitted in Spec: the form's defaults; a body with no
\* pattern in it; that body with an image whose name holds ", ".
DEFAULT_FROM == "employee@company.com"
DEFAULT_TO == "customer@example.com"
DEFAULT_SUBJECT == "Following up on your order"
Form(body, attachments) ==
    [from_email |-> DEFAULT_FROM, to_email |-> DEFAULT_TO,
     subject |-> DEFAULT_SUBJECT, body |-> body, attachments |-> attachments]
Forms ==
    {Form(BODY_DEFAULT, <<>>),
     Form(BODY_2, <<>>),
     Form(BODY_2, <<Attachment(<<"a", ",", " ", "b.png">>, IMAGE_PNG, 150000)>>)}

Times == 1..MaxTime

\* ----------------------------------------------------------------- state
VARIABLES
    log,             \* st.session_state.log
    email_status,    \* st.session_state.email_status
    selected_email,  \* st.session_state.selected_email (the message's id)
    page,            \* the sidebar radio's value
    event,           \* the interaction that caused the last script run
    scan,            \* the call of monitor_email the last step made, if any
    log_df_display,  \* the incident table the last run rendered
    flag_counts,     \* the flag chart's data the last run rendered
    metrics,         \* the three st.metric values the last run rendered
    violations,      \* history: the flags of each add_to_log call since the
                     \* log was last emptied
    det_body, det_attachments, det_flags, det_pc
                     \* one call of monitor_email (SpecDetect)

session_vars ==
    <<log, email_status, selected_email, page, event, scan, log_df_display,
      flag_counts, metrics, violations>>
det_vars == <<det_body, det_attachments, det_flags, det_pc>>
vars == <<session_vars, det_vars>>

\* selected_email = None
NoEmail == 0
\* A step that scanned nothing.
NoScan == [src |-> "none", id |-> NoEmail, flags |-> <<>>]

\* {email["id"]: "unread" for email in MOCK_INBOX}, at the session's start.
initial_status == [id \in EmailIds |-> "unread"]

\* Variant of cleared_log: log.pop().
log_without_last == SubSeq(log, 1, Len(log) - 1)
\* What the Clear Log handler assigns to the log (line 310).
cleared_log == <<>>
\* Variant of reset_status: the statuses left as they are.
status_kept == email_status
\* What the Clear Log handler assigns to email_status (line 311).
reset_status == [id \in EmailIds |-> "unread"]

InitSession ==
    /\ log = <<>>
    /\ email_status = initial_status
    /\ selected_email = NoEmail
    /\ page = "compose"
    /\ event = "start"
    /\ scan = NoScan
    /\ log_df_display = <<>>
    /\ flag_counts = <<>>
    /\ metrics = <<>>
    /\ violations = <<>>

Init ==
    /\ InitSession
    /\ det_body = BODY_EMPTY
    /\ det_attachments = <<>>
    /\ det_flags = <<>>
    /\ det_pc = "idle"

\* ------------------------------------------------------------ script runs
\* A page other than the dashboard renders no table, chart or metric.
NoDashboard ==
    /\ log_df_display' = <<>>
    /\ flag_counts' = <<>>
    /\ metrics' = <<>>

\* The dashboard page's run over the log as it is after the step (the page
\* reads the log, it does not assign it).
RenderDashboard ==
    /\ log_df_display' \in sort_values(log')
    /\ flag_counts' = flag_type_analysis(log')
    /\ metrics' = metrics_of(log')

\* The body of show_email_modal for message id: scan, then log and mark.
\* The step is left out once the log holds MaxLog records.
show_email_modal(id, flags, now) ==
    LET email == email_of(id)
    IN  IF truthy(flags)
        THEN /\ Len(log) < MaxLog
             /\ log' = add_to_log(log, email.from, "employee@company.com",
                                  email.subject, flags, "Incoming", now)
             /\ violations' = Append(violations, flags)
             /\ email_status' = [email_status EXCEPT ![id] = "flagged"]
        ELSE /\ email_status' = [email_status EXCEPT ![id] = "safe"]
             /\ UNCHANGED <<log, violations>>

\* --------------------------------------------------------------- actions
\* The radio is set to Compose (or the page is run again): the form is drawn,
\* submitted is False.
ViewCompose ==
    /\ page' = "compose"
    /\ event' = "navigate"
    /\ scan' = NoScan
    /\ NoDashboard
    /\ UNCHANGED <<log, violations, email_status, selected_email, det_vars>>

\* "Simulate Send" with the form f.
SimulateSend(f) ==
    /\ page = "compose"
    /\ event' = "send"
    /\ \E flags \in monitor_email(f.body, f.attachments), now \in Times :
          /\ scan' = [src |-> "compose", id |-> NoEmail, flags |-> flags]
          /\ IF truthy(flags)
             THEN /\ Len(log) < MaxLog
                  /\ log' = add_to_log(log, f.from_email, f.to_email, f.subject,
                                       flags, "Outgoing", now)
                  /\ violations' = Append(violations, flags)
             ELSE UNCHANGED <<log, violations>>
    /\ NoDashboard
    /\ UNCHANGED <<page, email_status, selected_email, det_vars>>

\* The radio is set to Inbox (or the page is run again) with no button
\* pressed: the list is drawn and, a message being selected, the dialog
\* function is called.
ViewInbox ==
    /\ page' = "inbox"
    /\ event' = "navigate"
    /\ IF selected_email = NoEmail
       THEN /\ scan' = NoScan
            /\ UNCHANGED <<log, violations, email_status>>
       ELSE \E flags \in monitor_email(email_of(selected_email).body,
                                       email_of(selected_email).attachments),
               now \in Times :
               /\ show_email_modal(selected_email, flags, now)
               /\ scan' = [src |-> "inbox", id |-> selected_email, flags |-> flags]
    /\ NoDashboard
    /\ UNCHANGED <<selected_email, det_vars>>

\* "Open Email" on message id: the message is selected and the dialog
\* function is called in the same run.
OpenEmail(id) ==
    /\ page = "inbox"
    /\ event' = "open"
    /\ selected_email' = id
    /\ \E flags \in monitor_email(email_of(id).body, email_of(id).attachments),
          now \in Times :
          /\ show_email_modal(id, flags, now)
          /\ scan' = [src |-> "inbox", id |-> id, flags |-> flags]
    /\ NoDashboard
    /\ UNCHANGED <<page, det_vars>>

\* "Close Email" in the dialog the last run opened.  A widget of a dialog
\* runs the dialog function again (st.dialog is a fragment): it scans, logs
\* and marks as in any run, then the button's branch unselects the message
\* and st.rerun() runs the page with no dialog.
CloseEmail ==
    /\ page = "inbox"
    /\ selected_email # NoEmail
    /\ event' = "close"
    /\ \E flags \in monitor_email(email_of(selected_email).body,
                                  email_of(selected_email).attachments),
          now \in Times :
          /\ show_email_modal(selected_email, flags, now)
          /\ scan' = [src |-> "inbox", id |-> selected_email, flags |-> flags]
    /\ selected_email' = NoEmail
    /\ NoDashboard
    /\ UNCHANGED <<page, det_vars>>

\* The radio is set to the dashboard (or the page is run again).
ViewDashboard ==
    /\ page' = "dashboard"
    /\ event' = "navigate"
    /\ scan' = NoScan
    /\ UNCHANGED <<log, violations, email_status, selected_email, det_vars>>
    /\ RenderDashboard

\* "Clear Log": the button is drawn only in the branch of a non-empty log;
\* st.rerun() then runs the dashboard over the emptied log.
ClearLog ==
    /\ page = "dashboard"
    /\ log # <<>>
    /\ event' = "clear"
    /\ log' = cleared_log
    /\ email_status' = reset_status
    /\ violations' = <<>>
    /\ scan' = NoScan
    /\ RenderDashboard
    /\ UNCHANGED <<page, selected_email, det_vars>>

Next ==
    \/ ViewCompose
    \/ \E f \in Forms : SimulateSend(f)
    \/ ViewInbox
    \/ \E id \in EmailIds : OpenEmail(id)
    \/ CloseEmail
    \/ ViewDashboard
    \/ ClearLog

Spec == Init /\ [][Next]_vars

\* ------------------------------------------------- the detector on its own
InitDetect ==
    /\ InitSession
    /\ det_body \in Bodies
    /\ det_attachments \in AttLists
    /\ det_flags = <<>>
    /\ det_pc = "call"

\* One call of monitor_email on the drawn input.
Detect ==
    /\ det_pc = "call"
    /\ det_flags' \in monitor_email(det_body, det_attachments)
    /\ det_pc' = "return"
    /\ UNCHANGED <<session_vars, det_body, det_attachments>>

SpecDetect == InitDetect /\ [][Detect]_vars

\* ================================================================ claims
Incoming(the_log) == {i \in DOMAIN the_log : the_log[i].Direction = "Incoming"}

\* Some record was appended in the step, and it is an Incoming one.
IncomingAppended ==
    /\ Len(log') > Len(log)
    /\ log'[Len(log')].Direction = "Incoming"

\* The number of times x occurs in the sequence s.
Occurrences(s, x) == Cardinality({i \in DOMAIN s : s[i] = x})

\* C1: every record of the log comes from a scan that returned at least one
\* label, so its Flags text is not empty; a step whose scan returns no label
\* leaves the log as it was.
C1_LoggedScansHaveLabels ==
    /\ [](/\ \A i \in DOMAIN log : log[i].Flags # <<>>
          /\ \A i \in DOMAIN violations : Len(violations[i]) >= 1)
    /\ [][(scan'.src # "none" /\ scan'.flags = <<>>) => log' = log]_vars

\* A record is in the log and the last step scanned a message with no label.
C1_Witness ==
    /\ Len(log) >= 1
    /\ scan.src = "inbox"
    /\ scan.flags = <<>>

\* C2: after N calls of add_to_log since the log was last emptied the log
\* holds N records, the i-th with the flags of the i-th call, repeated
\* calls with the same arguments included.
C2_OneRecordPerCall ==
    /\ Len(log) = Len(violations)
    /\ \A i \in DOMAIN log :
          i \in DOMAIN violations => log[i].Flags = join(violations[i])

\* Two calls with the same arguments (and the same clock reading) were made.
C2_Witness ==
    /\ Len(violations) = 2
    /\ Len(log) = 2
    /\ log[1] = log[2]

\* C3: right after Clear Log the log is empty and the dashboard drawn by the
\* handler's rerun lists nothing; a dashboard view that follows lists nothing.
C3_ClearEmptiesLog ==
    /\ [](event = "clear" =>
            /\ log = <<>>
            /\ log_df_display = <<>>
            /\ flag_counts = <<>>
            /\ metrics = <<>>)
    /\ [][(event = "clear" /\ event' = "navigate" /\ page' = "dashboard")
            => (log' = <<>> /\ log_df_display' = <<>>)]_vars

\* Clear Log has just been pressed.
C3_Witness ==
    /\ event = "clear"
    /\ page = "dashboard"
    /\ log = <<>>

\* C4: a step leaves the log as it was, appends one record at its end (the
\* records before it kept in place and unchanged), or is Clear Log and
\* empties it; a dashboard view leaves the log as it was.
C4_AppendOrClearOnly ==
    [][/\ \/ log' = log
          \/ /\ Len(log') = Len(log) + 1
             /\ SubSeq(log', 1, Len(log)) = log
          \/ /\ event' = "clear"
             /\ log' = <<>>
       /\ (event' = "navigate" /\ page' = "dashboard") => log' = log]_vars

\* The dashboard has been viewed over a log of two records, the first of
\* which was already there when the second was appended.
C4_Witness ==
    /\ Len(log) = 2
    /\ page = "dashboard"
    /\ event = "navigate"
    /\ log_df_display # <<>>

\* C5: the table the dashboard shows holds the records of the log, each as
\* often as the log holds it, and no row has a Timestamp below that of a
\* row after it.
C5_ListingSortedDescending ==
    page = "dashboard" =>
        /\ Len(log_df_display) = Len(log)
        /\ \A r \in Range(log) \cup Range(log_df_display) :
              Occurrences(log_df_display, r) = Occurrences(log, r)
        /\ \A i, j \in DOMAIN log_df_display :
              i < j => log_df_display[i].Timestamp >= log_df_display[j].Timestamp

\* The dashboard shows two records appended oldest first.
C5_Witness ==
    /\ page = "dashboard"
    /\ Len(log) = 2
    /\ log[1].Timestamp < log[2].Timestamp
    /\ log_df_display[1] = log[2]

\* C6: for every attachment of the list, the result holds the size label
\* of its name if its size is above 5*1024*1024 and the image label of its
\* name if its type starts with "image/"; and a size (image) label in the
\* result names an attachment above the limit (of an image type).
C6_AttachmentLabels ==
    det_pc = "return" =>
        /\ \A i \in DOMAIN det_attachments :
              LET att == det_attachments[i]
              IN  /\ att.size > 5 * 1024 * 1024
                        => size_label(att.name) \in Range(det_flags)
                  /\ att.type[1] = "image/"
                        => image_label(att.name) \in Range(det_flags)
        /\ \A n \in UploadNames :
              /\ size_label(n) \in Range(det_flags)
                    => \E i \in DOMAIN det_attachments :
                          /\ det_attachments[i].name = n
                          /\ det_attachments[i].size > 5 * 1024 * 1024
              /\ image_label(n) \in Range(det_flags)
                    => \E i \in DOMAIN det_attachments :
                          /\ det_attachments[i].name = n
                          /\ det_attachments[i].type[1] = "image/"

\* The call returned for a list whose first attachment is a zip of exactly
\* the limit and whose second, of another name, is an image above it.
C6_Witness ==
    /\ det_pc = "return"
    /\ Len(det_attachments) = 2
    /\ det_attachments[1].size = 5 * 1024 * 1024
    /\ det_attachments[1].type = APPLICATION_ZIP
    /\ det_attachments[2].name # det_attachments[1].name
    /\ det_attachments[2].size > 5 * 1024 * 1024
    /\ det_attachments[2].type = IMAGE_PNG
    /\ size_label(det_attachments[2].name) \in Range(det_flags)
    /\ image_label(det_attachments[2].name) \in Range(det_flags)

\* The labels the rules fire on the input of the call.
FiredLabels ==
    {<<REGEX_PATTERNS[k]>> :
        k \in {j \in DOMAIN REGEX_PATTERNS : re_search(REGEX_PATTERNS[j], det_body)}}
    \cup {size_label(det_attachments[i].name) :
            i \in {j \in DOMAIN det_attachments :
                     det_attachments[j].size > 5 * 1024 * 1024}}
    \cup {image_label(det_attachments[i].name) :
            i \in {j \in DOMAIN det_attachments :
                     det_attachments[j].type[1] = "image/"}}

\* C7: the returned list holds the fired labels and no other, each once,
\* with or without attachments.
C7_UnionWithoutDuplicates ==
    det_pc = "return" =>
        /\ Range(det_flags) = FiredLabels
        /\ Cardinality(Range(det_flags)) = Len(det_flags)

\* The call returned for a body with a pattern in it and two images of one
\* name, which fire the same label twice.
C7_Witness ==
    /\ det_pc = "return"
    /\ Len(det_attachments) = 2
    /\ det_attachments[1].name = det_attachments[2].name
    /\ det_attachments[1].type = IMAGE_PNG
    /\ det_attachments[2].type = IMAGE_PNG
    /\ det_body = BODY_DEFAULT
    /\ Len(det_flags) = 3

\* For each label of a logged scan, the number of logged scans it is in.
TrueTally ==
    [l \in UNION {Range(violations[i]) : i \in DOMAIN violations} |->
        Cardinality({i \in DOMAIN violations : l \in Range(violations[i])})]

\* C8: the counts of the dashboard's flag chart are the true tallies: each
\* label with the number of records whose scan returned it, nothing else.
C8_FlagCountsAreTallies ==
    page = "dashboard" => flag_counts = TrueTally

\* C9: only a click on "Open Email" appends an Incoming record; no other
\* step (a rerun of the Inbox, "Close Email", a change of page) does.
C9_OneRecordPerOpening ==
    [][event' # "open" => ~IncomingAppended]_vars

\* C10: a status is unread, safe or flagged; a flagged message has an
\* Incoming record of its sender and subject in the log; a message is safe
\* after a step only if the step scanned it and found no label, or it was
\* safe and the step did not scan it; Clear Log leaves every message unread
\* and the log empty.
C10_StatusConsistentWithLog ==
    /\ [](/\ \A id \in EmailIds :
                /\ email_status[id] \in {"unread", "safe", "flagged"}
                /\ email_status[id] = "flagged" =>
                      \E i \in Incoming(log) :
                         /\ log[i].From = email_of(id).from
                         /\ log[i].Subject = email_of(id).subject
          /\ event = "clear" =>
                /\ log = <<>>
                /\ \A id \in EmailIds : email_status[id] = "unread")
    /\ [][\A id \in EmailIds :
             email_status'[id] = "safe" =>
                \/ /\ email_status[id] = "safe"
                   /\ ~(scan'.src = "inbox" /\ scan'.id = id)
                \/ /\ scan'.src = "inbox"
                   /\ scan'.id = id
                   /\ scan'.flags = <<>>]_vars

\* One message is flagged, another is safe.
C10_Witness ==
    /\ email_status[1] = "flagged"
    /\ email_status[2] = "safe"
    /\ Incoming(log) # {}

====
